---- MODULE Spec2Model ----
(***************************************************************************)
(* Model of proxy/shadowsocks/client.go: one Client (server list and       *)
(* round-robin picker) and one invocation of Client.Dispatch, with the     *)
(* foreground path and the background response-reading goroutine as two    *)
(* interleaved processes.                                                  *)
(***************************************************************************)
EXTENDS Integers, Sequences, FiniteSets, TLC

\* ---------------------------------------------------------------- bounds
MaxPool == 2
MaxInput == 2
MaxResp == 2
MaxShared == 1

\* ------------------------------------------------------ program constants
MaxAttempts == 5

Networks == {"TCP", "RawTCP", "UDP"}
AuthModes == {"Disabled", "Enabled", "Auto"}
DestAddresses == {"example.com", "example.org"}
DestPorts == {443}
Version == "Version"
RequestOptionOneTimeAuth == "OneTimeAuth"

NoError == [kind |-> "nil", base |-> 0]
Pending == [kind |-> "pending", base |-> 0]
Error(k, b) == [kind |-> k, base |-> b]

VARIABLES
    serverList,     \* Client.serverPicker's list: sequence of ServerSpec
    nextIndex,      \* round-robin position of the picker (0-based)
    pc,             \* position of the foreground path of Dispatch
    destination,    \* argument of Dispatch
    network,        \* local `network`
    server,         \* local `server`: index into serverList, 0 is nil
    conn,           \* local `conn`: 0 is nil, else the attempt that dialed it
    connReusable,   \* the connection's reusable flag
    attempts,       \* the dial attempts made, in order
    waits,          \* number of retry delays slept
    request,        \* local `request`
    user,           \* local `user`: index of the server it was picked from
    responseUser,   \* the user the goroutine reads the response with, 0 if none
    bufferedWriter, \* state of v2io.BufferedWriter around conn
    bodyWriter,     \* writer returned by WriteTCPRequest
    wire,           \* units that reached the relay connection, in order
    defers,         \* deferred calls registered so far, in order
    responseMutex,  \* state and counters of the completion mutex
    bg,             \* position of the background goroutine: "none", "started",
                    \* "piping", "failed" (left on the response header), "done"
    bgStarted,      \* number of background goroutines started
    input,          \* ray.OutboundInput(): units read, releases
    output,         \* ray.OutboundOutput(): units piped in, closes
    payloadReleased,\* number of payload.Release() calls
    err,            \* value returned by Dispatch
    fgPiped         \* the foreground v2io.Pipe has ended

vars == <<serverList, nextIndex, pc, destination, network, server, conn,
          connReusable, attempts, waits, request, user, responseUser,
          bufferedWriter, bodyWriter, wire, defers, responseMutex, bg, bgStarted, input,
          output, payloadReleased, err, fgPiped>>

dialVars == <<server, conn, attempts, waits, nextIndex>>
reqVars == <<request, user, connReusable, responseUser>>
tcpVars == <<bufferedWriter, bodyWriter>>
rayVars == <<input, output, payloadReleased>>
bgVars == <<bg, bgStarted, responseMutex>>
callVars == <<serverList, destination, network>>

NoRequest == [Version |-> "", Address |-> "", Port |-> 0, Command |-> "none",
              User |-> 0, Option |-> {}]

\* ------------------------------------------------------------ server list
\* A ServerSpec: the relay's destination and its user with the typed account.
\* The account is either a ShadowsocksAccount with its OneTimeAuth mode or a
\* payload that GetTypedAccount cannot decode ("Invalid").
AccountKinds == AuthModes \cup {"Invalid"}

RelayAddresses == <<"relay1.net", "relay2.net", "relay3.net", "relay4.net">>

ServerSpec(i, account) ==
    [dest |-> [Address |-> RelayAddresses[i], Port |-> 8388, Network |-> "TCP"],
     account |-> account]

ServerConfigs == UNION {[1..n -> AccountKinds] : n \in 0..MaxPool}

\* NewClient: one ServerSpec per configured record, in order (lines 24-35).
NewClient(cfg) == [i \in 1..Len(cfg) |-> ServerSpec(i, cfg[i])]

\* RoundRobinServerPicker.PickServer: the server at nextIndex, nil (0) when
\* the list is empty.
PickServer(list, idx) == IF Len(list) = 0 THEN 0 ELSE idx + 1

AdvanceIndex(list, idx) == IF Len(list) = 0 THEN 0 ELSE (idx + 1) % Len(list)

\* retry.Timed(5, 100): another attempt is made while fewer than 5 were.
RetryExhausted(n) == n >= MaxAttempts

\* The error the exhausted retry returns: the error of its last attempt,
\* errors being numbered by the attempt that produced them.
RetryFailure(n) == n

Init ==
    /\ serverList \in {NewClient(cfg) : cfg \in ServerConfigs}
    /\ nextIndex = 0
    /\ pc = "idle"
    /\ destination = [Address |-> "", Port |-> 0, Network |-> "none"]
    /\ network = "none"
    /\ server = 0
    /\ conn = 0
    /\ connReusable = TRUE
    /\ attempts = <<>>
    /\ waits = 0
    /\ request = NoRequest
    /\ user = 0
    /\ responseUser = 0
    /\ bufferedWriter = [state |-> "none", cached |-> TRUE, buf |-> <<>>, released |-> 0]
    /\ bodyWriter = [state |-> "none", released |-> 0]
    /\ wire = <<>>
    /\ defers = <<>>
    /\ responseMutex = [state |-> "none", locks |-> 0, unlocks |-> 0, bad |-> 0]
    /\ bg = "none"
    /\ bgStarted = 0
    /\ input = [read |-> 0, released |-> 0]
    /\ output = [closed |-> 0, piped |-> 0, late |-> 0]
    /\ payloadReleased = 0
    /\ err = Pending
    /\ fgPiped = FALSE

\* ------------------------------------------------------------- operations
\* Another dispatch of the same client picks a server while this one has
\* not been called yet: the picker's rotation state is shared.
OtherPick ==
    /\ pc = "idle"
    /\ Len(serverList) > 0
    /\ nextIndex' = AdvanceIndex(serverList, nextIndex)
    /\ UNCHANGED <<serverList, pc, destination, network, server, conn,
                   connReusable, attempts, waits, request, user, responseUser,
                   bufferedWriter, bodyWriter, wire, defers, responseMutex,
                   bg, bgStarted, input, output, payloadReleased, err, fgPiped>>

\* Call as it would be without the deferred Output.Close of line 40.
CallNoClose ==
    /\ pc = "idle"
    /\ \E d \in [Address : DestAddresses, Port : DestPorts, Network : Networks] :
          /\ destination' = d
          /\ network' = d.Network
    /\ defers' = <<"payload.Release", "Input.Release">>
    /\ pc' = "dialing"
    /\ UNCHANGED <<serverList, dialVars, reqVars, tcpVars, wire, bgVars,
                   rayVars, err, fgPiped>>

\* Dispatch is entered: lines 37-42.
Call ==
    /\ pc = "idle"
    /\ \E d \in [Address : DestAddresses, Port : DestPorts, Network : Networks] :
          /\ destination' = d
          /\ network' = d.Network
    /\ defers' = <<"payload.Release", "Input.Release", "Output.Close">>
    /\ pc' = "dialing"
    /\ UNCHANGED <<serverList, dialVars, reqVars, tcpVars, wire, bgVars,
                   rayVars, err, fgPiped>>

\* The dial target of one attempt: lines 48-50.
DialTarget(s) == [serverList[s].dest EXCEPT !.Network = network]

\* DialSucceed as it would be if the server were bound by the first attempt
\* only and not picked again by the later ones.
DialSucceedKeepServer ==
    /\ pc = "dialing"
    /\ LET s == PickServer(serverList, nextIndex) IN
          /\ s # 0
          /\ server' = IF attempts = <<>> THEN s ELSE attempts[1].server
          /\ nextIndex' = AdvanceIndex(serverList, nextIndex)
          /\ attempts' = Append(attempts, [server |-> s, dest |-> DialTarget(s), ok |-> TRUE])
          /\ conn' = Len(attempts) + 1
    /\ pc' = "dialed"
    /\ UNCHANGED <<callVars, waits, reqVars, tcpVars, wire, defers, bgVars,
                   rayVars, err, fgPiped>>

\* One attempt of the retry loop whose dial succeeds: lines 47-58.
DialSucceed ==
    /\ pc = "dialing"
    /\ LET s == PickServer(serverList, nextIndex) IN
          /\ s # 0
          /\ server' = s
          /\ nextIndex' = AdvanceIndex(serverList, nextIndex)
          /\ attempts' = Append(attempts, [server |-> s, dest |-> DialTarget(s), ok |-> TRUE])
          /\ conn' = Len(attempts) + 1
    /\ pc' = "dialed"
    /\ UNCHANGED <<callVars, waits, reqVars, tcpVars, wire, defers, bgVars,
                   rayVars, err, fgPiped>>

\* DialFail as it would be if the exhausted retry closed the Output itself
\* before returning.
DialFailClosesOutput ==
    /\ pc = "dialing"
    /\ LET s == PickServer(serverList, nextIndex)
           n == Len(attempts) + 1 IN
          /\ s # 0
          /\ server' = s
          /\ nextIndex' = AdvanceIndex(serverList, nextIndex)
          /\ attempts' = Append(attempts, [server |-> s, dest |-> DialTarget(s), ok |-> FALSE])
          /\ IF RetryExhausted(n)
                THEN /\ err' = Error("dial", RetryFailure(n))
                     /\ pc' = "returning"
                     /\ waits' = waits
                     /\ output' = [output EXCEPT !.closed = @ + 1]
                ELSE /\ err' = err
                     /\ pc' = "dialing"
                     /\ waits' = waits + 1
                     /\ output' = output
    /\ UNCHANGED <<callVars, conn, reqVars, tcpVars, wire, defers, bgVars,
                   input, payloadReleased, fgPiped>>

\* DialFail as it would be if the attempt called PickServer a second time
\* (once for the destination, once more for the server it keeps).
DialFailPicksTwice ==
    /\ pc = "dialing"
    /\ LET s == PickServer(serverList, nextIndex)
           n == Len(attempts) + 1 IN
          /\ s # 0
          /\ server' = PickServer(serverList, AdvanceIndex(serverList, nextIndex))
          /\ nextIndex' = AdvanceIndex(serverList, AdvanceIndex(serverList, nextIndex))
          /\ attempts' = Append(attempts, [server |-> s, dest |-> DialTarget(s), ok |-> FALSE])
          /\ IF RetryExhausted(n)
                THEN /\ err' = Error("dial", RetryFailure(n))
                     /\ pc' = "returning"
                     /\ waits' = waits
                ELSE /\ err' = err
                     /\ pc' = "dialing"
                     /\ waits' = waits + 1
    /\ UNCHANGED <<callVars, conn, reqVars, tcpVars, wire, defers, bgVars,
                   rayVars, fgPiped>>

\* One attempt of the retry loop whose dial fails: lines 47-61.
DialFail ==
    /\ pc = "dialing"
    /\ LET s == PickServer(serverList, nextIndex)
           n == Len(attempts) + 1 IN
          /\ s # 0
          /\ server' = s
          /\ nextIndex' = AdvanceIndex(serverList, nextIndex)
          /\ attempts' = Append(attempts, [server |-> s, dest |-> DialTarget(s), ok |-> FALSE])
          /\ IF RetryExhausted(n)
                THEN /\ err' = Error("dial", RetryFailure(n))
                     /\ pc' = "returning"
                     /\ waits' = waits
                ELSE /\ err' = err
                     /\ pc' = "dialing"
                     /\ waits' = waits + 1
    /\ UNCHANGED <<callVars, conn, reqVars, tcpVars, wire, defers, bgVars,
                   rayVars, fgPiped>>

\* The picker has no server: server is nil and server.Destination() on
\* line 49 dereferences it; Dispatch panics.
DialNilServer ==
    /\ pc = "dialing"
    /\ PickServer(serverList, nextIndex) = 0
    /\ server' = 0
    /\ pc' = "panicking"
    /\ UNCHANGED <<callVars, nextIndex, conn, attempts, waits, reqVars,
                   tcpVars, wire, defers, bgVars, rayVars, err, fgPiped>>

\* ClientFactory.StreamCapability: lines 158-162.
StreamCapability == {"TCP", "RawTCP"}

\* ---------------------------------------------------------- request header
\* Lines 71-75: the command of the request.
RequestCommand(net) == IF net = "TCP" THEN "TCP" ELSE "UDP"

\* RequestOption as it would be if only Account_Enabled were tested.
RequestOptionEnabledOnly(option, account) ==
    IF account = "Enabled"
       THEN option \cup {RequestOptionOneTimeAuth}
       ELSE option

\* Lines 85-87: the option bits after the builder, from the bits before it.
RequestOption(option, account) ==
    IF account = "Auto" \/ account = "Enabled"
       THEN option \cup {RequestOptionOneTimeAuth}
       ELSE option

\* Lines 66-75: the header before the user is known.
NewRequest(dest) ==
    [Version |-> Version, Address |-> dest.Address, Port |-> dest.Port,
     Command |-> RequestCommand(dest.Network), User |-> 0, Option |-> {}]

\* user.GetTypedAccount() fails when the account cannot be decoded.
GetTypedAccountFails(s) == serverList[s].account = "Invalid"

\* BuildRequest as it would be if the error of GetTypedAccount were dropped.
BuildRequestIgnoresError ==
    /\ pc = "dialed"
    /\ connReusable' = FALSE
    /\ user' = server
    /\ request' = [NewRequest(destination) EXCEPT
                      !.User = server,
                      !.Option = RequestOption(@, serverList[server].account)]
    /\ err' = err
    /\ pc' = IF request'.Command = "TCP" THEN "tcp_request" ELSE "udp_start"
    /\ UNCHANGED <<callVars, dialVars, tcpVars, wire, defers, bgVars, rayVars,
                   fgPiped, responseUser>>

\* BuildRequest as it would be if conn.SetReusable(false) came after the
\* account had been read.
BuildRequestFlagsLate ==
    /\ pc = "dialed"
    /\ user' = server
    /\ IF GetTypedAccountFails(server)
          THEN /\ request' = NewRequest(destination)
               /\ connReusable' = connReusable
               /\ err' = Error("account", 0)
               /\ pc' = "returning"
          ELSE /\ request' = [NewRequest(destination) EXCEPT
                                 !.User = server,
                                 !.Option = RequestOption(@, serverList[server].account)]
               /\ connReusable' = FALSE
               /\ err' = err
               /\ pc' = IF request'.Command = "TCP" THEN "tcp_request" ELSE "udp_start"
    /\ UNCHANGED <<callVars, dialVars, tcpVars, wire, defers, bgVars, rayVars,
                   fgPiped, responseUser>>

\* Lines 62-87: the connection is flagged, the header is built, the user
\* is picked and its account read.
BuildRequest ==
    /\ pc = "dialed"
    /\ connReusable' = FALSE
    /\ user' = server
    /\ IF GetTypedAccountFails(server)
          THEN /\ request' = NewRequest(destination)
               /\ err' = Error("account", 0)
               /\ pc' = "returning"
          ELSE /\ request' = [NewRequest(destination) EXCEPT
                                 !.User = server,
                                 !.Option = RequestOption(@, serverList[server].account)]
               /\ err' = err
               /\ pc' = IF request'.Command = "TCP" THEN "tcp_request" ELSE "udp_start"
    /\ UNCHANGED <<callVars, dialVars, tcpVars, wire, defers, bgVars, rayVars,
                   fgPiped, responseUser>>

\* ------------------------------------------------------------- stream mode
Unit(data, frame) == [data |-> data, frame |-> frame]

\* Lines 90-98, WriteTCPRequest succeeds: the header is in the buffered
\* writer and a body writer is returned.
WriteRequestOk ==
    /\ pc = "tcp_request"
    /\ bufferedWriter' = [bufferedWriter EXCEPT !.state = "live",
                             !.buf = Append(@, Unit("header", request))]
    /\ bodyWriter' = [bodyWriter EXCEPT !.state = "live"]
    /\ defers' = defers \o <<"bufferedWriter.Release", "bodyWriter.Release">>
    /\ pc' = "tcp_payload"
    /\ UNCHANGED <<callVars, dialVars, reqVars, wire, bgVars, rayVars, err,
                   fgPiped>>

\* Lines 90-98, WriteTCPRequest fails. The writer it returns with the
\* error is either nil, and the defer of line 94 panics, or a writer.
WriteRequestFail ==
    /\ pc = "tcp_request"
    /\ bufferedWriter' = [bufferedWriter EXCEPT !.state = "live"]
    /\ \E nilWriter \in BOOLEAN :
          IF nilWriter
             THEN /\ bodyWriter' = [bodyWriter EXCEPT !.state = "nil"]
                  /\ defers' = Append(defers, "bufferedWriter.Release")
                  /\ err' = err
                  /\ pc' = "panicking"
             ELSE /\ bodyWriter' = [bodyWriter EXCEPT !.state = "live"]
                  /\ defers' = defers \o <<"bufferedWriter.Release", "bodyWriter.Release">>
                  /\ err' = Error("header", 0)
                  /\ pc' = "returning"
    /\ UNCHANGED <<callVars, dialVars, reqVars, wire, bgVars, rayVars, fgPiped>>

\* WritePayloadOk as it would be if the payload were written to conn and
\* not through the body writer on the buffered writer.
WritePayloadToConn ==
    /\ pc = "tcp_payload"
    /\ wire' = Append(wire, Unit("payload", NoRequest))
    /\ pc' = "tcp_respond"
    /\ UNCHANGED <<callVars, dialVars, reqVars, tcpVars, defers, bgVars,
                   rayVars, err, fgPiped>>

\* Lines 100-102, the payload is written through the body writer.
WritePayloadOk ==
    /\ pc = "tcp_payload"
    /\ bufferedWriter' = [bufferedWriter EXCEPT
                             !.buf = Append(@, Unit("payload", NoRequest))]
    /\ pc' = "tcp_respond"
    /\ UNCHANGED <<callVars, dialVars, reqVars, bodyWriter, wire, defers,
                   bgVars, rayVars, err, fgPiped>>

WritePayloadFail ==
    /\ pc = "tcp_payload"
    /\ err' = Error("payload", 0)
    /\ pc' = "returning"
    /\ UNCHANGED <<callVars, dialVars, reqVars, tcpVars, wire, defers, bgVars,
                   rayVars, fgPiped>>

\* sync.Mutex
Lock(m) == [m EXCEPT !.state = "locked", !.locks = @ + 1]

Unlock(m) ==
    IF m.state = "locked"
       THEN [m EXCEPT !.state = "unlocked", !.unlocks = @ + 1]
       ELSE [m EXCEPT !.bad = @ + 1]

\* Lines 104-117: the mutex is locked and the goroutine is started.
StartResponse ==
    /\ pc = "tcp_respond"
    /\ responseMutex' = Lock(responseMutex)
    /\ bg' = "started"
    /\ bgStarted' = bgStarted + 1
    /\ pc' = "tcp_flush"
    /\ UNCHANGED <<callVars, dialVars, reqVars, tcpVars, wire, defers, rayVars,
                   err, fgPiped>>

\* Line 119: bufferedWriter.SetCached(false) flushes what is buffered.
SetCached ==
    /\ pc = "tcp_flush"
    /\ wire' = wire \o bufferedWriter.buf
    /\ bufferedWriter' = [bufferedWriter EXCEPT !.cached = FALSE, !.buf = <<>>]
    /\ pc' = "tcp_pipe"
    /\ UNCHANGED <<callVars, dialVars, reqVars, bodyWriter, defers, bgVars,
                   rayVars, err, fgPiped>>

\* PipeInput as it would be if the datagram pipe wrote to conn and not to
\* the UDPWriter.
PipeInputUnframed ==
    /\ pc \in {"tcp_pipe", "udp_pipe"}
    /\ input.read < MaxInput
    /\ input' = [input EXCEPT !.read = @ + 1]
    /\ wire' = Append(wire, Unit("input", NoRequest))
    /\ UNCHANGED <<callVars, dialVars, reqVars, tcpVars, defers, bgVars, pc,
                   output, payloadReleased, err, fgPiped>>

\* Lines 120 and 148: one unit of v2io.Pipe(ray.OutboundInput(), writer).
PipeInput ==
    /\ pc \in {"tcp_pipe", "udp_pipe"}
    /\ input.read < MaxInput
    /\ input' = [input EXCEPT !.read = @ + 1]
    /\ wire' = Append(wire, Unit("input", IF pc = "udp_pipe" THEN request ELSE NoRequest))
    /\ UNCHANGED <<callVars, dialVars, reqVars, tcpVars, defers, bgVars, pc,
                   output, payloadReleased, err, fgPiped>>

\* Lines 120 and 148: the pipe returns (end of Input, read or write error).
PipeInputEnd ==
    /\ pc \in {"tcp_pipe", "udp_pipe"}
    /\ fgPiped' = TRUE
    /\ pc' = IF pc = "tcp_pipe" THEN "tcp_wait" ELSE "udp_wait"
    /\ UNCHANGED <<callVars, dialVars, reqVars, tcpVars, wire, defers, bgVars,
                   rayVars, err>>

\* WaitResponse as it would be without the second Lock of lines 122 and 150.
WaitResponseNoBlock ==
    /\ pc \in {"tcp_wait", "udp_wait"}
    /\ err' = NoError
    /\ pc' = "returning"
    /\ UNCHANGED <<callVars, dialVars, reqVars, tcpVars, wire, defers, bgVars,
                   rayVars, fgPiped>>

\* WaitResponse as it would be if the failure of the response header were
\* handed back to the foreground and returned.
WaitResponseReportsRead ==
    /\ pc \in {"tcp_wait", "udp_wait"}
    /\ responseMutex.state = "unlocked"
    /\ responseMutex' = Lock(responseMutex)
    /\ err' = IF bg = "failed" THEN Error("response", 0) ELSE NoError
    /\ pc' = "returning"
    /\ UNCHANGED <<callVars, dialVars, reqVars, tcpVars, wire, defers, bg,
                   bgStarted, rayVars, fgPiped>>

\* Lines 122 and 150: responseMutex.Lock() blocks until the goroutine has
\* unlocked; line 153 returns nil.
WaitResponse ==
    /\ pc \in {"tcp_wait", "udp_wait"}
    /\ responseMutex.state = "unlocked"
    /\ responseMutex' = Lock(responseMutex)
    /\ err' = NoError
    /\ pc' = "returning"
    /\ UNCHANGED <<callVars, dialVars, reqVars, tcpVars, wire, defers, bg,
                   bgStarted, rayVars, fgPiped>>

\* ----------------------------------------------------------- datagram mode
\* Lines 126-139: the mutex is locked and the goroutine is started; its
\* first step is the pipe.
StartUDPResponse ==
    /\ pc = "udp_start"
    /\ responseMutex' = Lock(responseMutex)
    /\ responseUser' = user
    /\ bg' = "piping"
    /\ bgStarted' = bgStarted + 1
    /\ pc' = "udp_payload"
    /\ UNCHANGED <<callVars, dialVars, request, user, connReusable, tcpVars,
                   wire, defers, rayVars, err, fgPiped>>

\* Lines 141-147: UDPWriter frames the payload with the request.
UDPWritePayloadOk ==
    /\ pc = "udp_payload"
    /\ wire' = Append(wire, Unit("payload", request))
    /\ pc' = "udp_pipe"
    /\ UNCHANGED <<callVars, dialVars, reqVars, tcpVars, defers, bgVars,
                   rayVars, err, fgPiped>>

\* Lines 145-147: the write fails and Dispatch returns the error.
UDPWritePayloadFail ==
    /\ pc = "udp_payload"
    /\ err' = Error("payload", 0)
    /\ pc' = "returning"
    /\ UNCHANGED <<callVars, dialVars, reqVars, tcpVars, wire, defers, bgVars,
                   rayVars, fgPiped>>

\* ------------------------------------------------------ background goroutine
\* Line 110: ReadTCPResponse succeeds.
ReadResponseOk ==
    /\ bg = "started"
    /\ responseUser' = user
    /\ bg' = "piping"
    /\ UNCHANGED <<callVars, dialVars, request, user, connReusable, tcpVars,
                   wire, defers, pc, bgStarted, responseMutex, rayVars, err,
                   fgPiped>>

\* ReadResponseFail as it would be with an Unlock before the return of
\* line 113 on top of the deferred one.
ReadResponseFailUnlocksTwice ==
    /\ bg = "started"
    /\ responseUser' = user
    /\ bg' = "failed"
    /\ responseMutex' = Unlock(Unlock(responseMutex))
    /\ UNCHANGED <<callVars, dialVars, request, user, connReusable, tcpVars,
                   wire, defers, pc, bgStarted, rayVars, err, fgPiped>>

\* ReadResponseFail as it would be without the return of line 113: what
\* the failed reader holds is piped into the Output.
ReadResponseFailPipes ==
    /\ bg = "started"
    /\ responseUser' = user
    /\ bg' = "failed"
    /\ output' = [output EXCEPT !.piped = @ + 1]
    /\ responseMutex' = Unlock(responseMutex)
    /\ UNCHANGED <<callVars, dialVars, request, user, connReusable, tcpVars,
                   wire, defers, pc, bgStarted, input, payloadReleased, err,
                   fgPiped>>

\* ReadResponseFail as it would be if the Unlock were not deferred but came
\* after the pipe: the return of line 113 leaves the mutex locked.
ReadResponseFailNoUnlock ==
    /\ bg = "started"
    /\ responseUser' = user
    /\ bg' = "failed"
    /\ UNCHANGED <<callVars, dialVars, request, user, connReusable, tcpVars,
                   wire, defers, pc, bgStarted, responseMutex, rayVars, err,
                   fgPiped>>

\* Lines 108-114: ReadTCPResponse fails, the goroutine returns.
ReadResponseFail ==
    /\ bg = "started"
    /\ responseUser' = user
    /\ bg' = "failed"
    /\ responseMutex' = Unlock(responseMutex)
    /\ UNCHANGED <<callVars, dialVars, request, user, connReusable, tcpVars,
                   wire, defers, pc, bgStarted, rayVars, err, fgPiped>>

\* Lines 116 and 138: one unit of v2io.Pipe(reader, ray.OutboundOutput()).
\* A write into the closed Output fails and ends the pipe.
PipeResponse ==
    /\ bg = "piping"
    /\ output.piped + output.late < MaxResp
    /\ IF output.closed = 0
          THEN /\ output' = [output EXCEPT !.piped = @ + 1]
               /\ UNCHANGED <<bg, responseMutex>>
          ELSE /\ output' = [output EXCEPT !.late = @ + 1]
               /\ bg' = "done"
               /\ responseMutex' = Unlock(responseMutex)
    /\ UNCHANGED <<callVars, dialVars, reqVars, tcpVars, wire, defers, pc,
                   bgStarted, input, payloadReleased, err, fgPiped>>

\* Lines 108, 116, 131 and 138: the pipe returns (end of the response, read
\* error, or the time-out of the datagram reader); the deferred Unlock runs.
PipeResponseEnd ==
    /\ bg = "piping"
    /\ bg' = "done"
    /\ responseMutex' = Unlock(responseMutex)
    /\ UNCHANGED <<callVars, dialVars, reqVars, tcpVars, wire, defers, pc,
                   bgStarted, rayVars, err, fgPiped>>

\* ReadTimeout as it would be if the goroutine read from conn directly and
\* not through the time-out reader: no read ever times out.
ReadTimeoutMissing ==
    /\ FALSE
    /\ UNCHANGED vars

\* Lines 126, 131 and 138: no packet comes within the idle time of the
\* time-out reader, its read fails, the pipe returns and the deferred
\* Unlock runs. Only the datagram goroutine reads through that reader.
ReadTimeout ==
    /\ bg = "piping"
    /\ request.Command = "UDP"
    /\ bg' = "done"
    /\ responseMutex' = Unlock(responseMutex)
    /\ UNCHANGED <<callVars, dialVars, reqVars, tcpVars, wire, defers, pc,
                   bgStarted, rayVars, err, fgPiped>>

\* ------------------------------------------------------------------ return
RECURSIVE Count(_, _)
Count(name, seq) ==
    IF seq = <<>> THEN 0
    ELSE (IF Head(seq) = name THEN 1 ELSE 0) + Count(name, Tail(seq))

\* Dispatch leaves, by a return statement or by a panic: every deferred call
\* registered so far runs (lines 38-40, 91, 94).
Return ==
    /\ pc \in {"returning", "panicking"}
    /\ payloadReleased' = payloadReleased + Count("payload.Release", defers)
    /\ input' = [input EXCEPT !.released = @ + Count("Input.Release", defers)]
    /\ output' = [output EXCEPT !.closed = @ + Count("Output.Close", defers)]
    /\ bufferedWriter' = [bufferedWriter EXCEPT
                             !.released = @ + Count("bufferedWriter.Release", defers),
                             !.buf = <<>>]
    /\ bodyWriter' = [bodyWriter EXCEPT
                         !.released = @ + Count("bodyWriter.Release", defers)]
    /\ defers' = <<>>
    /\ pc' = IF pc = "returning" THEN "done" ELSE "panicked"
    /\ UNCHANGED <<callVars, dialVars, reqVars, wire, bgVars, err, fgPiped>>

Next ==
    \/ OtherPick
    \/ Call
    \/ DialSucceed
    \/ DialFail
    \/ DialNilServer
    \/ BuildRequest
    \/ WriteRequestOk
    \/ WriteRequestFail
    \/ WritePayloadOk
    \/ WritePayloadFail
    \/ StartResponse
    \/ SetCached
    \/ PipeInput
    \/ PipeInputEnd
    \/ WaitResponse
    \/ StartUDPResponse
    \/ UDPWritePayloadOk
    \/ UDPWritePayloadFail
    \/ ReadResponseOk
    \/ ReadResponseFail
    \/ PipeResponse
    \/ PipeResponseEnd
    \/ ReadTimeout
    \/ Return

Spec == Init /\ [][Next]_vars

\* The runtime schedules a goroutine that can run: the foreground takes the
\* mutex once it is unlocked and runs its deferred calls once it returns,
\* and the time-out of the datagram reader fires when no packet comes.
FairSpec ==
    /\ Spec
    /\ WF_vars(WaitResponse)
    /\ WF_vars(Return)
    /\ WF_vars(ReadTimeout)

\* Other dispatches of the same client pick servers between the attempts of
\* this one (after each of its first MaxShared attempts).
OtherPickWhileDialing ==
    /\ pc = "dialing"
    /\ Len(serverList) > 1
    /\ Len(attempts) \in 1..MaxShared
    /\ nextIndex' = AdvanceIndex(serverList, nextIndex)
    /\ UNCHANGED <<serverList, pc, destination, network, server, conn,
                   connReusable, attempts, waits, request, user, responseUser,
                   bufferedWriter, bodyWriter, wire, defers, responseMutex,
                   bg, bgStarted, input, output, payloadReleased, err, fgPiped>>

SharedNext == Next \/ OtherPickWhileDialing

SharedSpec == Init /\ [][SharedNext]_vars

\* ------------------------------------------------------------------ claims
Returned == pc = "done"

BgExited == bg \in {"failed", "done"}

\* Some deferred release or close of Dispatch has run.
CleanupRan ==
    payloadReleased + input.released + output.closed
        + bufferedWriter.released + bodyWriter.released > 0

AllDialsFailed ==
    /\ Len(attempts) = MaxAttempts
    /\ \A i \in 1..Len(attempts) : ~attempts[i].ok

\* C1: on every exit path, once Dispatch has returned the payload has been
\* released exactly once, the Input released exactly once and the Output
\* closed exactly once; none of them is ever released or closed twice.
C1_ReleasedExactlyOnce ==
    /\ payloadReleased <= 1 /\ input.released <= 1 /\ output.closed <= 1
    /\ Returned =>
          /\ payloadReleased = 1
          /\ input.released = 1
          /\ output.closed = 1

\* A datagram dispatch that returned the error of its payload write.
C1_Witness ==
    /\ Returned /\ request.Command = "UDP" /\ err.kind = "payload"
    /\ payloadReleased = 1 /\ input.released = 1 /\ output.closed = 1

\* C2: in stream mode, once the background goroutine is started, Dispatch
\* does not leave and no cleanup runs before both the foreground copy and
\* the background goroutine have ended.
C2_StreamWaitsForBoth ==
    (request.Command = "TCP" /\ bgStarted > 0
        /\ (CleanupRan \/ pc \in {"returning", "done", "panicking", "panicked"}))
    => (fgPiped /\ BgExited)

\* The foreground copy has ended and Dispatch is blocked on the response
\* that has not arrived.
C2_Witness ==
    /\ request.Command = "TCP" /\ pc = "tcp_wait" /\ fgPiped
    /\ bg = "started" /\ ~CleanupRan

\* C3: in datagram mode the cleanup never runs while the background
\* goroutine is running, and the goroutine never pipes into the closed
\* Output.
C3_DatagramCleanupAfterReader ==
    (destination.Network = "UDP" /\ request.Command = "UDP" /\ bgStarted > 0)
    => /\ CleanupRan => BgExited
       /\ output.late = 0

\* C4: at most 5 attempts; the attempts before the last one failed; the
\* connection and the server (and the user picked from it) are those of the
\* successful attempt; after 5 failures the error wraps the last dial error
\* and nothing is written or started.
C4_RetryBinding ==
    /\ Len(attempts) <= MaxAttempts
    /\ \A i \in 1..Len(attempts) : i < Len(attempts) => ~attempts[i].ok
    /\ conn # 0 =>
          /\ conn = Len(attempts)
          /\ attempts[conn].ok
          /\ server = attempts[conn].server
          /\ user \in {0, attempts[conn].server}
          /\ request.User \in {0, attempts[conn].server}
    /\ (conn = 0 /\ pc \notin {"idle", "dialing", "panicking", "panicked"}) =>
          /\ AllDialsFailed
          /\ err = Error("dial", MaxAttempts)
          /\ wire = <<>> /\ bufferedWriter.state = "none" /\ bgStarted = 0

\* The first attempt failed on one server, the second dialed another one,
\* and the dispatch went on with the second server's user.
C4_Witness ==
    /\ Len(attempts) = 2 /\ conn = 2
    /\ attempts[1].server # attempts[2].server
    /\ request.User = attempts[2].server
    /\ Returned

\* C5: the returned error is non-nil only when the request phase failed
\* (before the foreground copy ever ran); once the copy has run, whatever
\* the fate of the response path, Dispatch returns nil.
C5_ErrorOnlyFromRequestPhase ==
    Returned =>
       /\ err # NoError =>
             /\ err.kind \in {"dial", "account", "header", "payload"}
             /\ ~fgPiped
       /\ fgPiped => err = NoError
       /\ bg = "failed" => err = NoError

\* The response header could not be read and Dispatch returned nil.
C5_Witness == Returned /\ bg = "failed" /\ err = NoError

\* C6, as claimed: when every dial attempt fails, the Input and the Output
\* are, up to and including the return of Dispatch, as they were before
\* the call.
C6_ChannelUntouchedAtReturn ==
    (err.kind = "dial" /\ pc \in {"returning", "done"})
    => /\ input.released = 0 /\ output.closed = 0
       /\ input.read = 0 /\ output.piped = 0 /\ output.late = 0

\* C6, amended: when every dial attempt fails, nothing is read from the
\* Input or piped into the Output, the channel is untouched up to the
\* return statement, and the deferred cleanup of the return releases the
\* Input once and closes the Output once.
C6_ChannelUntouchedUntilCleanup ==
    /\ pc = "dialing" => (input.released = 0 /\ output.closed = 0)
    /\ err.kind = "dial" =>
          /\ input.read = 0 /\ output.piped = 0 /\ output.late = 0
          /\ bgStarted = 0
          /\ pc = "returning" => (input.released = 0 /\ output.closed = 0)
          /\ pc = "done" => (input.released = 1 /\ output.closed = 1)

\* All 5 dials failed and Dispatch is at its return statement.
C6_Witness ==
    /\ AllDialsFailed /\ err.kind = "dial" /\ pc = "returning"
    /\ input.released = 0 /\ output.closed = 0

\* C7: the command is stream for the stream-like network kinds (TCP and
\* RawTCP) and datagram otherwise, and the branch taken matches it.
C7_CommandFollowsNetwork ==
    request.Command # "none" =>
       /\ request.Command =
             (IF destination.Network \in StreamCapability THEN "TCP" ELSE "UDP")
       /\ bufferedWriter.state # "none" => request.Command = "TCP"
       /\ (bgStarted > 0 /\ bg = "started") => request.Command = "TCP"

\* C8: the authentication option is set exactly for the modes enabled and
\* auto, the builder changes no other option bit, and the header carries
\* the address and port of the original destination.
C8_HeaderOptionAndTarget ==
    request.User # 0 =>
       LET account == serverList[request.User].account IN
          /\ (RequestOptionOneTimeAuth \in request.Option)
                <=> (account \in {"Enabled", "Auto"})
          /\ request.Option \subseteq {RequestOptionOneTimeAuth}
          /\ \A o \in SUBSET {RequestOptionOneTimeAuth, "other"} :
                RequestOption(o, account) \ {RequestOptionOneTimeAuth}
                   = o \ {RequestOptionOneTimeAuth}
          /\ request.Address = destination.Address
          /\ request.Port = destination.Port
          /\ request.Address # serverList[server].dest.Address

\* A header built for an account in mode auto carries the option.
C8_Witness ==
    /\ request.User # 0
    /\ serverList[request.User].account = "Auto"
    /\ RequestOptionOneTimeAuth \in request.Option

\* C9: when the account of the picked user cannot be retrieved, Dispatch
\* ends with a non-nil error, nothing has been written to the connection
\* and no background goroutine has been started.
C9_AccountFailureBeforeWrite ==
    (conn # 0 /\ pc \notin {"dialing", "dialed"} /\ GetTypedAccountFails(server))
    => /\ pc \in {"returning", "done"}
       /\ err = Error("account", 0)
       /\ wire = <<>> /\ bufferedWriter.state = "none"
       /\ bufferedWriter.buf = <<>>
       /\ input.read = 0
       /\ bgStarted = 0 /\ bg = "none"

\* The dial succeeded, the account could not be read, Dispatch returned.
C9_Witness ==
    /\ Returned /\ conn # 0 /\ GetTypedAccountFails(server)
    /\ err.kind = "account" /\ wire = <<>>

\* C10: with an empty server list Dispatch ends with an error at once: no
\* dial attempt, no retry delay.
C10_EmptyPoolImmediateError ==
    (Len(serverList) = 0 /\ pc \notin {"idle", "dialing"})
    => /\ pc \in {"returning", "done"}
       /\ err.kind \notin {"nil", "pending"}
       /\ attempts = <<>> /\ waits = 0

\* Everything handed to the relay connection so far, buffered or sent.
Written == wire \o bufferedWriter.buf

\* A write of the request phase has failed: the header (with or without a
\* writer returned) or the initial payload.
RequestWriteFailed ==
    err.kind \in {"header", "payload"} \/ bodyWriter.state = "nil"

\* C11: when the header write or the initial payload write fails, Dispatch
\* returns a non-nil error, no Input unit is forwarded, and the cleanup
\* runs: payload released, Input released, Output closed and, in stream
\* mode, the buffered writer released.
C11_WriteFailureReturnsErrorAndCleans ==
    RequestWriteFailed =>
       /\ pc \in {"returning", "done"}
       /\ err.kind \in {"header", "payload"}
       /\ input.read = 0
       /\ \A i \in 1..Len(Written) : Written[i].data # "input"
       /\ pc = "done" =>
             /\ payloadReleased = 1 /\ input.released = 1 /\ output.closed = 1
             /\ request.Command = "TCP" => bufferedWriter.released = 1

\* C12: in datagram mode the idle read path ends and releases the mutex,
\* and once the Input copy has ended too Dispatch returns.
C12_IdleDatagramTerminates ==
    /\ (request.Command = "UDP" /\ bg = "piping")
          ~> (bg = "done" /\ responseMutex.unlocks = 1)
    /\ (request.Command = "UDP" /\ pc = "udp_wait") ~> (pc = "done")

\* A datagram dispatch whose Input copy ended first, whose reader then
\* ended without having piped a packet, and which returned nil.
C12_Witness ==
    /\ destination.Network = "UDP" /\ request.Command = "UDP"
    /\ Returned /\ fgPiped /\ bg = "done" /\ output.piped = 0
    /\ err = NoError

\* The dial target the claim gives for server s.
ExpectedTarget(s) ==
    [Address |-> serverList[s].dest.Address, Port |-> serverList[s].dest.Port,
     Network |-> destination.Network]

\* C13, as claimed: the i-th attempt of a dispatch targets the server i - 1
\* positions after the first attempt's server in the cyclic order, and dials
\* its address and port with the network of the original destination.
C13_RotationWithinDispatch ==
    \A i \in 1..Len(attempts) :
       /\ attempts[i].server =
             ((attempts[1].server - 1 + (i - 1)) % Len(serverList)) + 1
       /\ attempts[i].dest = ExpectedTarget(attempts[i].server)

\* C13, amended: each attempt calls PickServer exactly once (it takes the
\* server the shared rotation is at and advances the rotation by one), and
\* dials that server's address and port with the network of the original
\* destination; the position relative to the first attempt is only kept
\* when no other dispatch picks in between.
C13_OnePickPerAttempt ==
    /\ [][Len(attempts') = Len(attempts) + 1 =>
             /\ attempts'[Len(attempts')].server = nextIndex + 1
             /\ server' = nextIndex + 1
             /\ nextIndex' = (nextIndex + 1) % Len(serverList)]_vars
    /\ [](\A i \in 1..Len(attempts) :
             attempts[i].dest = ExpectedTarget(attempts[i].server))

\* Another dispatch picked between the first and the second attempt: with
\* two servers both attempts dialed the same one, for a datagram.
C13_Witness ==
    /\ Len(serverList) = 2 /\ Len(attempts) = 2
    /\ attempts[1].server = attempts[2].server
    /\ attempts[2].dest.Network = "UDP"
    /\ attempts[2].dest.Address = serverList[attempts[2].server].dest.Address

\* The number of units of one kind in a sequence of units.
RECURSIVE CountData(_, _)
CountData(data, seq) ==
    IF seq = <<>> THEN 0
    ELSE (IF Head(seq).data = data THEN 1 ELSE 0) + CountData(data, Tail(seq))

\* C14: in stream mode the connection gets the header, then the payload,
\* then the Input units; the header is serialized once and the payload
\* written once, and an Input unit is only written after the payload and
\* with the buffered writer switched to flush-through.
C14_StreamOrder ==
    request.Command = "TCP" =>
       /\ \A i \in 1..Len(Written) :
             Written[i].data = (IF i = 1 THEN "header"
                                ELSE IF i = 2 THEN "payload" ELSE "input")
       /\ Len(Written) >= 1 => Written[1].frame = request
       /\ CountData("header", Written) <= 1
       /\ CountData("payload", Written) <= 1
       /\ pc \in {"tcp_respond", "tcp_flush", "tcp_pipe", "tcp_wait"} =>
             /\ CountData("header", Written) = 1
             /\ CountData("payload", Written) = 1
       /\ CountData("input", Written) > 0 =>
             /\ ~bufferedWriter.cached
             /\ Len(wire) >= 3 /\ wire[2].data = "payload"

\* The header, the payload and two Input units are on the connection.
C14_Witness ==
    /\ request.Command = "TCP" /\ ~bufferedWriter.cached
    /\ Len(wire) = 4 /\ wire[1].data = "header" /\ wire[2].data = "payload"
    /\ wire[3].data = "input" /\ wire[4].data = "input"

\* C15: in datagram mode every unit on the connection is a packet framed
\* with the request header of this dispatch, the initial payload is the
\* first of them, and nothing goes through a buffered writer.
C15_DatagramFraming ==
    request.Command = "UDP" =>
       /\ \A i \in 1..Len(wire) :
             /\ wire[i].frame = request
             /\ wire[i].data = (IF i = 1 THEN "payload" ELSE "input")
       /\ bufferedWriter.state = "none" /\ bufferedWriter.buf = <<>>
       /\ pc \in {"udp_pipe", "udp_wait"} => Len(wire) >= 1

\* The payload packet and an Input packet, both with the header.
C15_Witness ==
    /\ destination.Network = "UDP" /\ request.Command = "UDP"
    /\ Len(wire) = 2 /\ wire[1].data = "payload" /\ wire[2].data = "input"
    /\ wire[1].frame = request /\ wire[2].frame = request
    /\ request.User # 0

\* The initial payload has been handed to the connection.
PayloadWritten == CountData("payload", Written) = 1

\* C16: the background goroutine, the start of the relaying phase, is only
\* started once the request phase, the write of the initial payload
\* included, has succeeded, and never in a dispatch whose request phase
\* fails.
C16_RelayingAfterRequest ==
    (bgStarted > 0 /\ destination.Network \in {"TCP", "UDP"}) =>
       /\ PayloadWritten
       /\ err.kind \in {"pending", "nil"}
       /\ pc \notin {"dialing", "dialed", "tcp_request", "tcp_payload",
                     "udp_start", "udp_payload"}

\* The ok attempts among the dial attempts.
Dialed == {i \in 1..Len(attempts) : attempts[i].ok}

\* C17: a dispatch obtains at most one connection; it is flagged
\* non-reusable before anything is written or read and before a later
\* failure can end the dispatch, and the flag is never set back.
C17_ConnectionNotReusable ==
    /\ [](Cardinality(Dialed) <= 1 /\ (conn # 0 <=> Dialed = {conn}))
    /\ []((\/ Written # <<>>
           \/ bgStarted > 0
           \/ bufferedWriter.state # "none"
           \/ RequestWriteFailed
           \/ err.kind = "account"
           \/ (conn # 0 /\ pc \in {"returning", "done", "panicking", "panicked"}))
          => ~connReusable)
    /\ [][~connReusable => ~connReusable']_vars

\* The dispatch ended on the account with its connection flagged.
C17_Witness ==
    /\ Returned /\ err.kind = "account" /\ conn # 0 /\ ~connReusable
    /\ Cardinality(Dialed) = 1

\* C18: the mutex is a single-use signal: locked by the foreground before
\* the goroutine is started, unlocked exactly once by the goroutine on each
\* of its exits, locked again by the foreground at most once and only after
\* its own copy ended; never unlocked while not held; at most one goroutine.
C18_SingleUseSignal ==
    /\ bgStarted <= 1
    /\ responseMutex.bad = 0
    /\ responseMutex.unlocks <= 1 /\ responseMutex.locks <= 2
    /\ bgStarted = 0 => (responseMutex.locks = 0 /\ responseMutex.state = "none")
    /\ bgStarted > 0 =>
          /\ responseMutex.locks >= 1
          /\ BgExited <=> responseMutex.unlocks = 1
          /\ responseMutex.locks = 2 => (fgPiped /\ responseMutex.unlocks = 1)

\* The goroutine left on the response header, unlocked once, and the
\* foreground took the mutex a second time.
C18_Witness ==
    /\ bg = "failed" /\ responseMutex.unlocks = 1 /\ responseMutex.locks = 2
    /\ responseMutex.bad = 0 /\ bgStarted = 1

\* C19: in stream mode, when the response header cannot be read the
\* goroutine leaves without piping anything into the Output, unlocks the
\* mutex, and the cleanup still waits for it; the response is read with the
\* user of the request header.
C19_ResponseHeaderFailure ==
    /\ bg = "failed" =>
          /\ request.Command = "TCP"
          /\ output.piped = 0 /\ output.late = 0
          /\ responseMutex.unlocks = 1
          /\ CleanupRan => fgPiped
    /\ (request.Command = "TCP" /\ bg = "started") => ~CleanupRan
    /\ responseUser # 0 => (responseUser = request.User /\ responseUser = user)

\* The header could not be read with the request's user; the foreground is
\* still copying the Input and nothing has been cleaned up.
C19_Witness ==
    /\ bg = "failed" /\ pc = "tcp_pipe" /\ input.read = 1
    /\ responseUser = request.User /\ responseUser # 0
    /\ output.piped = 0 /\ ~CleanupRan

\* C20: in stream mode, once both the Input copy and the response read path
\* have ended, in either order, Dispatch returns; and as no time-out bounds
\* the stream read, Dispatch does not return while the read path is still
\* running, even with the Input copy over.
C20_StreamTermination ==
    /\ (request.Command = "TCP" /\ fgPiped /\ BgExited) ~> (pc = "done")
    /\ []((request.Command = "TCP" /\ bgStarted > 0 /\ ~BgExited) =>
             /\ ~ENABLED ReadTimeout
             /\ pc \notin {"returning", "done"}
             /\ pc = "tcp_wait" => ~ENABLED WaitResponse)

\* The response ended after the Input copy and Dispatch returned nil.
C20_Witness ==
    /\ request.Command = "TCP" /\ Returned /\ err = NoError
    /\ fgPiped /\ bg = "done" /\ output.piped = 1 /\ input.read = 1
    /\ responseMutex.locks = 2
====
